---- MODULE Spec2Model ----
(***************************************************************************)
(* encode.py: the command-line wrapper (lines 14-27) and encode_config     *)
(* (lines 6-12).                                                           *)
(*                                                                         *)
(* A Python str is a TLA+ string, a Python bytes object is a sequence of   *)
(* integers 0..255, a list is a sequence.  A parsed JSON value is a record *)
(* [t |-> tag, v |-> payload]:                                             *)
(*   "null" (v = 0), "bool" (v = 0 or 1), "int" (v = the integer),          *)
(*   "str" (v = the string), "list" (v = the sequence of values),          *)
(*   "dict" (v = the sequence of <<key, value>> pairs in insertion order). *)
(***************************************************************************)
EXTENDS Integers, Sequences, FiniteSets, TLC

VARIABLES
  argv,               \* sys.argv
  pc,                 \* where the script is
  json_string,        \* line 19
  config,             \* line 22
  json_str,           \* encode_config's locals, lines 7-10
  compressed_data,
  original_data_len,
  header,
  encoded_string,     \* line 23: what encode_config returned
  stdout,             \* the lines printed
  stderr,             \* the exceptions reported
  exit_code           \* the exit status, -1 while the process runs

main_vars == <<argv, pc, json_string, config, stdout, stderr, exit_code>>
local_vars == <<json_str, compressed_data, original_data_len, header>>
vars == <<main_vars, local_vars, encoded_string>>

(***************************************************************************)
(* Bounds of the model.                                                    *)
(***************************************************************************)
\* The argument is a concatenation of at most MaxTokens tokens of ArgTokens.
MaxTokens == 5
\* The nesting depth beyond which json.loads raises RecursionError.  CPython's
\* limit is about 1000 levels; the model scales it down so that arguments of
\* MaxTokens tokens reach it.
MaxNesting == 3
\* SpecWide: a length is a number of at most MaxLenDigits base-256 digits.
MaxLenDigits == 5

(***************************************************************************)
(* Characters.                                                             *)
(***************************************************************************)
\* Printable ASCII below and above the backquote (a TLA+ string cannot hold one).
PrintableLow ==
  " !\"#$%&'()*+,-./0123456789:;<=>?@ABCDEFGHIJKLMNOPQRSTUVWXYZ[\\]^_"
PrintableHigh == "abcdefghijklmnopqrstuvwxyz{|}~"

\* The code points the model meets: "\n" and printable ASCII but the backquote.
CodePoints == {10} \cup (32..95) \cup (97..126)

\* chr(n)
Chr(n) ==
  CASE n = 10 -> "\n"
    [] n <= 95 -> SubSeq(PrintableLow, n - 31, n - 31)
    [] OTHER -> SubSeq(PrintableHigh, n - 96, n - 96)

OrdTable == [c \in {Chr(n) : n \in CodePoints} |->
               CHOOSE n \in CodePoints : Chr(n) = c]

\* ord(c)
Ord(c) == OrdTable[c]

\* s[i:i+1] with a 0-based index i: the character, or "" past the end.
At(s, i) == IF i >= 0 /\ i < Len(s) THEN SubSeq(s, i + 1, i + 1) ELSE ""

\* s[i:j] with 0-based indices.
Slice(s, i, j) == SubSeq(s, i + 1, IF j > Len(s) THEN Len(s) ELSE j)

Digits == {"0", "1", "2", "3", "4", "5", "6", "7", "8", "9"}
DigitVal(c) == Ord(c) - 48

\* json.decoder.WHITESPACE: " \t\n\r"
IsWs(c) == c \in {" ", "\t", "\n", "\r"}

RECURSIVE SkipWs(_, _)
\* _w(s, end).end()
SkipWs(s, i) == IF IsWs(At(s, i)) THEN SkipWs(s, i + 1) ELSE i

(***************************************************************************)
(* json.loads (line 22).  A result is [err, val, end]: err is "" on        *)
(* success, else the exception class; end is the 0-based index after the   *)
(* value.                                                                  *)
(***************************************************************************)
None == [t |-> "null", v |-> 0]
Ok(val, end) == [err |-> "", val |-> val, end |-> end]
Raise(e) == [err |-> e, val |-> None, end |-> 0]
JSONDecodeError == "JSONDecodeError"
RecursionError == "RecursionError"

RECURSIVE ScanDigits(_, _)
\* The end of the digit run that starts at i.
ScanDigits(s, i) == IF At(s, i) \in Digits THEN ScanDigits(s, i + 1) ELSE i

RECURSIVE IntOf(_)
\* int(text) of a run of digits.
IntOf(text) ==
  IF text = "" THEN 0
  ELSE IntOf(SubSeq(text, 1, Len(text) - 1)) * 10
         + DigitVal(SubSeq(text, Len(text), Len(text)))

\* NUMBER_RE restricted to integers: -?(0|[1-9][0-9]*)
ScanNumber(s, i) ==
  LET neg == At(s, i) = "-"
      b == IF neg THEN i + 1 ELSE i
      e == IF At(s, b) = "0" THEN b + 1 ELSE ScanDigits(s, b)
  IN IF e = b THEN Raise("StopIteration")
     ELSE Ok([t |-> "int",
              v |-> IF neg THEN 0 - IntOf(Slice(s, b, e)) ELSE IntOf(Slice(s, b, e))],
             e)

\* BACKSLASH of json.decoder: the character an escape letter stands for
\* (those the model's character set holds; "" for no escape letter).
Unescape(c) ==
  CASE c = "\"" -> "\""
    [] c = "\\" -> "\\"
    [] c = "/" -> "/"
    [] c = "n" -> "\n"
    [] OTHER -> ""

RECURSIVE ScanString(_, _, _)
\* py_scanstring(s, end): s[end-1] is the opening quote; acc is the content
\* read so far.
ScanString(s, i, acc) ==
  LET c == At(s, i)
  IN CASE c = "" -> Raise(JSONDecodeError)          \* unterminated string
       [] c = "\"" -> Ok([t |-> "str", v |-> acc], i + 1)
       [] c = "\n" -> Raise(JSONDecodeError)        \* control character, strict
       [] c = "\\" ->
            LET esc == At(s, i + 1)
            IN IF Unescape(esc) = "" THEN Raise(JSONDecodeError)
               ELSE ScanString(s, i + 2, acc \o Unescape(esc))
       [] OTHER -> ScanString(s, i + 1, acc \o c)

\* dict(pairs) then items(): a repeated key keeps its first place and takes
\* the last value.
RECURSIVE DictOf(_, _)
DictOf(pairs, acc) ==
  IF pairs = <<>> THEN acc
  ELSE LET p == Head(pairs)
           at == {k \in 1..Len(acc) : acc[k][1] = p[1]}
       IN DictOf(Tail(pairs),
                 IF at = {} THEN Append(acc, p)
                 ELSE [k \in 1..Len(acc) |-> IF k \in at THEN p ELSE acc[k]])

RECURSIVE ScanOnce(_, _, _, _), ScanArray(_, _, _, _, _), ScanObject(_, _, _, _, _)

\* scan_once(string, idx) at nesting depth `depth`; the interpreter raises
\* RecursionError when an array or an object is entered deeper than `limit`.
ScanOnce(s, idx, depth, limit) ==
  LET c == At(s, idx)
  IN CASE c = "" -> Raise("StopIteration")
       [] c = "\"" -> ScanString(s, idx + 1, "")
       [] c = "{" ->
            IF depth + 1 > limit THEN Raise(RecursionError)
            ELSE LET e == SkipWs(s, idx + 1)
                 IN IF At(s, e) = "}" THEN Ok([t |-> "dict", v |-> <<>>], e + 1)
                    ELSE IF At(s, e) # "\"" THEN Raise(JSONDecodeError)
                    ELSE ScanObject(s, e + 1, depth + 1, limit, <<>>)
       [] c = "[" ->
            IF depth + 1 > limit THEN Raise(RecursionError)
            ELSE LET e == SkipWs(s, idx + 1)
                 IN IF At(s, e) = "]" THEN Ok([t |-> "list", v |-> <<>>], e + 1)
                    ELSE ScanArray(s, e, depth + 1, limit, <<>>)
       [] c = "n" /\ Slice(s, idx, idx + 4) = "null" -> Ok(None, idx + 4)
       [] c = "t" /\ Slice(s, idx, idx + 4) = "true" -> Ok([t |-> "bool", v |-> 1], idx + 4)
       [] c = "f" /\ Slice(s, idx, idx + 5) = "false" -> Ok([t |-> "bool", v |-> 0], idx + 5)
       [] OTHER -> ScanNumber(s, idx)

\* JSONArray's loop: `end` is where the next element starts.
ScanArray(s, end, depth, limit, values) ==
  LET r == ScanOnce(s, end, depth, limit)
  IN IF r.err = "StopIteration" THEN Raise(JSONDecodeError)   \* Expecting value
     ELSE IF r.err # "" THEN r
     ELSE LET e == SkipWs(s, r.end)
              nextchar == At(s, e)
              vals == Append(values, r.val)
          IN IF nextchar = "]" THEN Ok([t |-> "list", v |-> vals], e + 1)
             ELSE IF nextchar # "," THEN Raise(JSONDecodeError)
             ELSE ScanArray(s, SkipWs(s, e + 1), depth, limit, vals)

\* JSONObject's loop: `end` is just after the opening quote of the next key.
ScanObject(s, end, depth, limit, pairs) ==
  LET k == ScanString(s, end, "")
  IN IF k.err # "" THEN k
     ELSE LET colon == SkipWs(s, k.end)
          IN IF At(s, colon) # ":" THEN Raise(JSONDecodeError)
             ELSE LET r == ScanOnce(s, SkipWs(s, colon + 1), depth, limit)
                  IN IF r.err = "StopIteration" THEN Raise(JSONDecodeError)
                     ELSE IF r.err # "" THEN r
                     ELSE LET e == SkipWs(s, r.end)
                              nextchar == At(s, e)
                              ps == Append(pairs, <<k.val.v, r.val>>)
                          IN IF nextchar = "}"
                             THEN Ok([t |-> "dict", v |-> DictOf(ps, <<>>)], e + 1)
                             ELSE IF nextchar # "," THEN Raise(JSONDecodeError)
                             ELSE LET q == SkipWs(s, e + 1)
                                  IN IF At(s, q) # "\"" THEN Raise(JSONDecodeError)
                                     ELSE ScanObject(s, q + 1, depth, limit, ps)

\* JSONDecoder.decode under a recursion limit.
Decode(s, limit) ==
  LET r == ScanOnce(s, SkipWs(s, 0), 0, limit)
  IN IF r.err = "StopIteration" THEN Raise(JSONDecodeError)
     ELSE IF r.err # "" THEN r
     ELSE IF SkipWs(s, r.end) # Len(s) THEN Raise(JSONDecodeError)   \* Extra data
     ELSE r

\* json.loads(json_string) as the interpreter runs it.
loads(s) == Decode(s, MaxNesting)

\* Whether s is a JSON text at all: the grammar, with no limit on nesting.
IsJson(s) == Decode(s, Len(s) + 1).err = ""

(***************************************************************************)
(* json.dumps(config, indent=4) (line 7): the pure-Python encoder, which   *)
(* is the one json uses when indent is given.                              *)
(***************************************************************************)
RECURSIVE NatStr(_)
NatStr(n) == IF n < 10 THEN Chr(48 + n) ELSE NatStr(n \div 10) \o Chr(48 + (n % 10))

\* int.__repr__
IntRepr(n) == IF n < 0 THEN "-" \o NatStr(0 - n) ELSE NatStr(n)

\* A bug: no character is escaped.
EscapeNone(c) == c

\* ESCAPE_ASCII / ESCAPE_DCT of json.encoder, one character (of CodePoints:
\* none needs a \uXXXX escape).
EscapeAscii(c) ==
  CASE c = "\"" -> "\\\""
    [] c = "\\" -> "\\\\"
    [] c = "\n" -> "\\n"
    [] OTHER -> c

RECURSIVE EscapeAll(_)
EscapeAll(str) ==
  IF str = "" THEN "" ELSE EscapeAscii(SubSeq(str, 1, 1)) \o EscapeAll(SubSeq(str, 2, Len(str)))

\* encode_basestring_ascii
EncodeString(str) == "\"" \o EscapeAll(str) \o "\""

RECURSIVE Spaces(_)
Spaces(n) == IF n = 0 THEN "" ELSE " " \o Spaces(n - 1)

\* '\n' + indent * level, with indent = 4 spaces
NewlineIndent(level) == "\n" \o Spaces(4 * level)

RECURSIVE IterEncode(_, _), IterEncodeList(_, _, _), IterEncodeDict(_, _, _)

\* _iterencode(o, _current_indent_level)
IterEncode(o, level) ==
  CASE o.t = "str" -> EncodeString(o.v)
    [] o.t = "null" -> "null"
    [] o.t = "bool" -> IF o.v = 1 THEN "true" ELSE "false"
    [] o.t = "int" -> IntRepr(o.v)
    [] o.t = "list" ->
         IF o.v = <<>> THEN "[]"
         ELSE "[" \o NewlineIndent(level + 1) \o IterEncodeList(o.v, 1, level + 1)
                  \o NewlineIndent(level) \o "]"
    [] o.t = "dict" ->
         IF o.v = <<>> THEN "{}"
         ELSE "{" \o NewlineIndent(level + 1) \o IterEncodeDict(o.v, 1, level + 1)
                  \o NewlineIndent(level) \o "}"

\* The items of a list from the k-th on, at the (already raised) level.
IterEncodeList(lst, k, level) ==
  IterEncode(lst[k], level)
    \o (IF k = Len(lst) THEN ""
        ELSE "," \o NewlineIndent(level) \o IterEncodeList(lst, k + 1, level))

\* The items of a dict from the k-th on.
IterEncodeDict(dct, k, level) ==
  EncodeString(dct[k][1]) \o ": " \o IterEncode(dct[k][2], level)
    \o (IF k = Len(dct) THEN ""
        ELSE "," \o NewlineIndent(level) \o IterEncodeDict(dct, k + 1, level))

dumps(o) == IterEncode(o, 0)

(***************************************************************************)
(* str.encode() and bytes.decode(): UTF-8.                                 *)
(***************************************************************************)
Utf8(cp) ==
  IF cp < 128 THEN <<cp>>
  ELSE IF cp < 2048 THEN <<192 + (cp \div 64), 128 + (cp % 64)>>
  ELSE <<224 + (cp \div 4096), 128 + ((cp \div 64) % 64), 128 + (cp % 64)>>

RECURSIVE StrEncode(_)
StrEncode(str) ==
  IF str = "" THEN <<>> ELSE Utf8(Ord(SubSeq(str, 1, 1))) \o StrEncode(SubSeq(str, 2, Len(str)))

RECURSIVE BytesDecode(_)
\* bytes.decode() of ASCII bytes.
BytesDecode(b) == IF b = <<>> THEN "" ELSE Chr(Head(b)) \o BytesDecode(Tail(b))

(***************************************************************************)
(* zlib.compress(data) (line 8): a zlib stream at the default level.  For  *)
(* inputs as short as the model's, zlib's deflate_slow emits one final     *)
(* block with the fixed Huffman codes.                                     *)
(***************************************************************************)
RECURSIVE BitsMsb(_, _)
\* The low n bits of v, most significant first (a Huffman code).
BitsMsb(v, n) == IF n = 0 THEN <<>> ELSE Append(BitsMsb(v \div 2, n - 1), v % 2)

RECURSIVE BitsLsb(_, _)
\* The low n bits of v, least significant first (extra bits, header fields).
BitsLsb(v, n) == IF n = 0 THEN <<>> ELSE <<v % 2>> \o BitsLsb(v \div 2, n - 1)

\* RFC 1951, 3.2.6: the fixed code of a literal/length symbol.
LitLenCode(sym) ==
  CASE sym < 144 -> BitsMsb(48 + sym, 8)
    [] sym < 256 -> BitsMsb(400 + (sym - 144), 9)
    [] sym < 280 -> BitsMsb(sym - 256, 7)
    [] OTHER -> BitsMsb(192 + (sym - 280), 8)

\* RFC 1951, 3.2.5: base lengths and extra bits of the symbols 257..285.
LenBase == <<3, 4, 5, 6, 7, 8, 9, 10, 11, 13, 15, 17, 19, 23, 27, 31, 35, 43, 51, 59,
             67, 83, 99, 115, 131, 163, 195, 227, 258>>
LenExtra == <<0, 0, 0, 0, 0, 0, 0, 0, 1, 1, 1, 1, 2, 2, 2, 2, 3, 3, 3, 3,
              4, 4, 4, 4, 5, 5, 5, 5, 0>>
\* Base distances and extra bits of the distance codes 0..29.
DistBase == <<1, 2, 3, 4, 5, 7, 9, 13, 17, 25, 33, 49, 65, 97, 129, 193, 257, 385, 513,
              769, 1025, 1537, 2049, 3073, 4097, 6145, 8193, 12289, 16385, 24577>>
DistExtra == <<0, 0, 0, 0, 1, 1, 2, 2, 3, 3, 4, 4, 5, 5, 6, 6, 7, 7, 8, 8,
               9, 9, 10, 10, 11, 11, 12, 12, 13, 13>>

\* The index (1-based) of the last base not above x.
BaseIndex(base, x) == CHOOSE i \in 1..Len(base) :
                        base[i] <= x /\ (i = Len(base) \/ base[i + 1] > x)

\* A match of `len` bytes at distance `dist`.
MatchBits(len, dist) ==
  LET li == BaseIndex(LenBase, len)
      di == BaseIndex(DistBase, dist)
  IN LitLenCode(256 + li) \o BitsLsb(len - LenBase[li], LenExtra[li])
       \o BitsMsb(di - 1, 5) \o BitsLsb(dist - DistBase[di], DistExtra[di])

RECURSIVE CommonLen(_, _, _)
\* How many bytes agree from the (0-based) positions q < p on.
CommonLen(data, q, p) ==
  IF p < Len(data) /\ data[q + 1] = data[p + 1] THEN 1 + CommonLen(data, q + 1, p + 1) ELSE 0

\* longest_match: the longest earlier occurrence that beats prev_length, the
\* nearest of the longest; position 0 is never a candidate (it is NIL in the
\* hash chains).  [len, start]; len = prev_length when nothing beats it.
LongestMatch(data, strstart, prev_length, prev_start) ==
  LET better == {q \in 1..(strstart - 1) : CommonLen(data, q, strstart) > prev_length}
  IN IF better = {} THEN [len |-> prev_length, start |-> prev_start]
     ELSE LET best == CHOOSE q \in better :
                        \A r \in better :
                          \/ CommonLen(data, r, strstart) < CommonLen(data, q, strstart)
                          \/ (CommonLen(data, r, strstart) = CommonLen(data, q, strstart) /\ r <= q)
          IN [len |-> CommonLen(data, best, strstart), start |-> best]

RECURSIVE DeflateSlow(_, _, _, _, _)
\* deflate_slow with the level-6 configuration (max_lazy 16): lazy matching.
\* The bits of the symbols emitted from strstart on.
DeflateSlow(data, strstart, match_length, match_start, match_available) ==
  IF strstart >= Len(data)
  THEN IF match_available THEN LitLenCode(data[Len(data)]) ELSE <<>>
  ELSE LET lookahead == Len(data) - strstart
           prev_length == match_length
           prev_match == match_start
           m == IF lookahead >= 3 /\ prev_length < 16
                THEN LongestMatch(data, strstart, prev_length, prev_match)
                ELSE [len |-> 2, start |-> prev_match]
           cur_length == IF lookahead >= 3 /\ prev_length < 16 THEN m.len ELSE 2
       IN IF prev_length >= 3 /\ cur_length <= prev_length
          THEN MatchBits(prev_length, strstart - 1 - prev_match)
                 \o DeflateSlow(data, strstart + prev_length - 1, 2, m.start, FALSE)
          ELSE IF match_available
          THEN LitLenCode(data[strstart])
                 \o DeflateSlow(data, strstart + 1, cur_length, m.start, TRUE)
          ELSE DeflateSlow(data, strstart + 1, cur_length, m.start, TRUE)

RECURSIVE PackBits(_)
\* Bits to bytes, the first bit the least significant, the last byte padded
\* with zero bits.
PackBits(bits) ==
  IF bits = <<>> THEN <<>>
  ELSE LET b(k) == IF k <= Len(bits) THEN bits[k] ELSE 0
       IN <<b(1) + 2 * b(2) + 4 * b(3) + 8 * b(4) + 16 * b(5) + 32 * b(6)
              + 64 * b(7) + 128 * b(8)>>
            \o PackBits(IF Len(bits) <= 8 THEN <<>> ELSE SubSeq(bits, 9, Len(bits)))

RECURSIVE AdlerSums(_, _, _)
\* The two running sums of Adler-32 over data.
AdlerSums(data, a, b) ==
  IF data = <<>> THEN <<a, b>>
  ELSE LET a2 == (a + Head(data)) % 65521
       IN AdlerSums(Tail(data), a2, (b + a2) % 65521)

\* The Adler-32 checksum, 4 bytes big-endian.
Adler32(data) ==
  LET ab == AdlerSums(data, 1, 0)
  IN <<ab[2] \div 256, ab[2] % 256, ab[1] \div 256, ab[1] % 256>>

\* Header 78 9C, one final fixed-Huffman block (BFINAL = 1, BTYPE = 01),
\* end-of-block, Adler-32.
compress(data) ==
  <<120, 156>>
    \o PackBits(<<1, 1, 0>> \o DeflateSlow(data, 0, 2, 0, FALSE) \o LitLenCode(256))
    \o Adler32(data)

(***************************************************************************)
(* int.to_bytes (line 10).  A Python integer is unbounded: it is held as   *)
(* its base-256 digits, most significant first, without leading zeros.     *)
(***************************************************************************)
RECURSIVE IntDigits(_)
IntDigits(n) == IF n = 0 THEN <<>> ELSE Append(IntDigits(n \div 256), n % 256)

OverflowError == "OverflowError"

\* A bug: byteorder='little'.
to_bytes_little(n, length) ==
  IF Len(n) > length THEN [err |-> OverflowError, val |-> <<>>]
  ELSE [err |-> "", val |-> [k \in 1..length |-> IF k <= Len(n) THEN n[Len(n) + 1 - k] ELSE 0]]

\* A bug: the length is wrapped modulo 256^length instead of refused.
to_bytes_wrap(n, length) ==
  [err |-> "",
   val |-> [k \in 1..length |-> IF k + Len(n) > length THEN n[k + Len(n) - length] ELSE 0]]

\* n.to_bytes(length, byteorder='big'): OverflowError("int too big to
\* convert") when n does not fit.
to_bytes(n, length) ==
  IF Len(n) > length THEN [err |-> OverflowError, val |-> <<>>]
  ELSE [err |-> "", val |-> [k \in 1..(length - Len(n)) |-> 0] \o n]

(***************************************************************************)
(* base64.urlsafe_b64encode and str.rstrip (line 11).                      *)
(***************************************************************************)
B64Alphabet == "ABCDEFGHIJKLMNOPQRSTUVWXYZabcdefghijklmnopqrstuvwxyz0123456789+/"

B64Char(k) == Ord(SubSeq(B64Alphabet, k + 1, k + 1))

RECURSIVE b64encode(_)
\* binascii.b2a_base64: 3 bytes to 4 characters, the last group padded with "=".
b64encode(b) ==
  IF b = <<>> THEN <<>>
  ELSE LET n == Len(b)
           b1 == b[1]
           b2 == IF n >= 2 THEN b[2] ELSE 0
           b3 == IF n >= 3 THEN b[3] ELSE 0
       IN <<B64Char(b1 \div 4),
            B64Char((b1 % 4) * 16 + b2 \div 16),
            IF n >= 2 THEN B64Char((b2 % 16) * 4 + b3 \div 64) ELSE 61,
            IF n >= 3 THEN B64Char(b3 % 64) ELSE 61>>
            \o b64encode(IF n <= 3 THEN <<>> ELSE SubSeq(b, 4, n))

\* bytes.translate(_urlsafe_encode_translation): "+" to "-", "/" to "_".
UrlsafeTranslate(b) ==
  [k \in 1..Len(b) |-> CASE b[k] = 43 -> 45 [] b[k] = 47 -> 95 [] OTHER -> b[k]]

\* A bug: base64.b64encode, the standard alphabet.
standard_b64encode(b) == b64encode(b)

urlsafe_b64encode(b) == UrlsafeTranslate(b64encode(b))

\* A bug: the last two characters are cut off whatever they are.
rstrip_two(str, c) == SubSeq(str, 1, Len(str) - 2)

RECURSIVE rstrip(_, _)
\* str.rstrip(chars) for a one-character chars.
rstrip(str, c) ==
  IF str # "" /\ SubSeq(str, Len(str), Len(str)) = c
  THEN rstrip(SubSeq(str, 1, Len(str) - 1), c)
  ELSE str

(***************************************************************************)
(* encode_config (lines 6-12).  The result is a record: err is the         *)
(* exception raised ("" for none), val the value returned, and the locals  *)
(* as they were when the function ended.                                   *)
(***************************************************************************)
\* Lines 10-12, given the compressed data and the length of json_str.
EncodeTail(data, data_len) ==
  LET hdr == to_bytes(data_len, 4)
  IN IF hdr.err # "" THEN [err |-> hdr.err, val |-> "", header |-> <<>>]
     ELSE [err |-> "",
           val |-> rstrip(BytesDecode(urlsafe_b64encode(hdr.val \o data)), "="),
           header |-> hdr.val]

\* A bug: the header is prepended before compressing.
encode_config_compress_header(cfg) ==
  LET str == StrEncode(dumps(cfg))
      n == IntDigits(Len(str))
      hdr == to_bytes(n, 4)
      data == compress(hdr.val \o str)
  IN [err |-> hdr.err,
      val |-> rstrip(BytesDecode(urlsafe_b64encode(data)), "="),
      json_str |-> str, compressed_data |-> data, original_data_len |-> n,
      header |-> hdr.val]

encode_config(cfg) ==
  LET str == StrEncode(dumps(cfg))
      data == compress(str)
      n == IntDigits(Len(str))
      tail == EncodeTail(data, n)
  IN [err |-> tail.err, val |-> tail.val, json_str |-> str,
      compressed_data |-> data, original_data_len |-> n, header |-> tail.header]

(***************************************************************************)
(* The invocations.                                                        *)
(***************************************************************************)
\* The last token is the JSON text of a one-character string, a double quote.
ArgTokens == {"[", "]", "{", "}", ":", ",", "1", "\"a\"", "\"\\\"\""}

RECURSIVE ArgStrings(_)
ArgStrings(n) ==
  IF n = 0 THEN {""}
  ELSE LET shorter == ArgStrings(n - 1)
       IN shorter \cup {t \o s : t \in ArgTokens, s \in shorter}

ScriptName == "encode.py"
Unset == [t |-> "unset", v |-> 0]

Init ==
  /\ argv \in {<<ScriptName>>} \cup {<<ScriptName, a>> : a \in ArgStrings(MaxTokens)}
  /\ pc = "start"
  /\ json_string = ""
  /\ config = Unset
  /\ json_str = <<>>
  /\ compressed_data = <<>>
  /\ original_data_len = <<>>
  /\ header = <<>>
  /\ encoded_string = ""
  /\ stdout = <<>>
  /\ stderr = <<>>
  /\ exit_code = -1

UsageLine == "Usage: python3 encode.py '<json_string>'"
InvalidLine == "Invalid JSON string."

\* A bug: sys.exit() without the status.
MissingArgumentExit0 ==
  /\ pc = "start"
  /\ Len(argv) < 2
  /\ stdout' = Append(stdout, UsageLine)
  /\ exit_code' = 0
  /\ pc' = "exited"
  /\ UNCHANGED <<argv, json_string, config, stderr, local_vars, encoded_string>>

\* Lines 16-18: no positional argument.
MissingArgument ==
  /\ pc = "start"
  /\ Len(argv) < 2
  /\ stdout' = Append(stdout, UsageLine)
  /\ exit_code' = 1
  /\ pc' = "exited"
  /\ UNCHANGED <<argv, json_string, config, stderr, local_vars, encoded_string>>

\* Line 19.
ReadArgument ==
  /\ pc = "start"
  /\ Len(argv) >= 2
  /\ json_string' = argv[2]
  /\ pc' = "try"
  /\ UNCHANGED <<argv, config, stdout, stderr, exit_code, local_vars, encoded_string>>

\* Line 22, with lines 26-27 when it raises JSONDecodeError; any other
\* exception leaves the try statement uncaught.
Loads ==
  /\ pc = "try"
  /\ LET r == loads(json_string)
     IN /\ config' = IF r.err = "" THEN r.val ELSE config
        /\ stdout' = IF r.err = JSONDecodeError THEN Append(stdout, InvalidLine) ELSE stdout
        /\ stderr' = IF r.err \notin {"", JSONDecodeError} THEN Append(stderr, r.err) ELSE stderr
        /\ pc' = CASE r.err = "" -> "loaded"
                   [] r.err = JSONDecodeError -> "end"
                   [] OTHER -> "uncaught"
  /\ UNCHANGED <<argv, json_string, exit_code, local_vars, encoded_string>>

\* Line 23: the call of encode_config; an exception it raises is not a
\* JSONDecodeError and leaves the try statement uncaught.
EncodeConfig ==
  /\ pc = "loaded"
  /\ LET r == encode_config(config)
     IN /\ json_str' = r.json_str
        /\ compressed_data' = r.compressed_data
        /\ original_data_len' = r.original_data_len
        /\ header' = r.header
        /\ encoded_string' = r.val
        /\ stderr' = IF r.err # "" THEN Append(stderr, r.err) ELSE stderr
        /\ pc' = IF r.err = "" THEN "encoded" ELSE "uncaught"
  /\ UNCHANGED <<argv, json_string, config, stdout, exit_code>>

\* Line 24.
PrintToken ==
  /\ pc = "encoded"
  /\ stdout' = Append(stdout, encoded_string)
  /\ pc' = "end"
  /\ UNCHANGED <<argv, json_string, config, stderr, exit_code, local_vars, encoded_string>>

\* The script runs off its end: the interpreter exits with status 0.
ExitNormally ==
  /\ pc = "end"
  /\ exit_code' = 0
  /\ pc' = "exited"
  /\ UNCHANGED <<argv, json_string, config, stdout, stderr, local_vars, encoded_string>>

\* An uncaught exception: the interpreter reports it on stderr and exits
\* with status 1.
ExitUncaught ==
  /\ pc = "uncaught"
  /\ exit_code' = 1
  /\ pc' = "exited"
  /\ UNCHANGED <<argv, json_string, config, stdout, stderr, local_vars, encoded_string>>

Next ==
  \/ MissingArgument
  \/ ReadArgument
  \/ Loads
  \/ EncodeConfig
  \/ PrintToken
  \/ ExitNormally
  \/ ExitUncaught

Spec == Init /\ [][Next]_vars

(***************************************************************************)
(* encode_config on a text too long to write down: the call is taken up    *)
(* at line 10, with the length of json_str and its compressed form given.  *)
(***************************************************************************)
LenDigits == {0, 1, 255}

\* The lengths: 1 to MaxLenDigits base-256 digits, the first not zero.
WideLengths ==
  UNION {{d \in [1..k -> LenDigits] : d[1] # 0} : k \in 1..MaxLenDigits}

InitWide ==
  /\ argv = <<ScriptName>>
  /\ pc = "line10"
  /\ json_string = ""
  /\ config = Unset
  /\ json_str = <<>>
  /\ compressed_data \in {compress(<<123, 125>>), compress(<<49>>)}
  /\ original_data_len \in WideLengths
  /\ header = <<>>
  /\ encoded_string = ""
  /\ stdout = <<>>
  /\ stderr = <<>>
  /\ exit_code = -1

\* Lines 10-12 return the token.
ReturnToken ==
  /\ pc = "line10"
  /\ LET r == EncodeTail(compressed_data, original_data_len)
     IN /\ r.err = ""
        /\ header' = r.header
        /\ encoded_string' = r.val
  /\ pc' = "returned"
  /\ UNCHANGED <<argv, json_string, config, stdout, stderr, exit_code,
                 json_str, compressed_data, original_data_len>>

\* Line 10 raises.
RaiseAtHeader ==
  /\ pc = "line10"
  /\ LET r == EncodeTail(compressed_data, original_data_len)
     IN /\ r.err # ""
        /\ stderr' = Append(stderr, r.err)
  /\ pc' = "raised"
  /\ UNCHANGED <<argv, json_string, config, stdout, exit_code, local_vars, encoded_string>>

NextWide == ReturnToken \/ RaiseAtHeader

SpecWide == InitWide /\ [][NextWide]_vars

(***************************************************************************)
(* The decoding side, which the repository does not hold: base64 with the  *)
(* padding restored (RFC 4648), zlib decompression (RFC 1950, RFC 1951     *)
(* fixed-Huffman blocks) and the two orders in which a decoder can take    *)
(* the token apart.                                                        *)
(***************************************************************************)
UrlsafeAlphabet == "ABCDEFGHIJKLMNOPQRSTUVWXYZabcdefghijklmnopqrstuvwxyz0123456789-_"
UrlsafeChars == {SubSeq(UrlsafeAlphabet, k, k) : k \in 1..64}

\* The 6-bit value of a URL-safe base64 character.
B64Index(c) == (CHOOSE k \in 1..64 : SubSeq(UrlsafeAlphabet, k, k) = c) - 1

RECURSIVE Equals(_)
Equals(k) == IF k = 0 THEN "" ELSE "=" \o Equals(k - 1)

\* token + "=" * (-len(token) % 4)
RestorePadding(token) == token \o Equals((4 - (Len(token) % 4)) % 4)

\* Whether str is padded base64: groups of 4, "=" only at the end of the last.
B64Valid(str) ==
  /\ Len(str) % 4 = 0
  /\ \A k \in 1..Len(str) :
       \/ SubSeq(str, k, k) \in UrlsafeChars
       \/ /\ SubSeq(str, k, k) = "="
          /\ k >= Len(str) - 1
          /\ k > 2
          /\ (k = Len(str) - 1 => SubSeq(str, Len(str), Len(str)) = "=")

RECURSIVE B64Groups(_)
B64Groups(str) ==
  IF str = "" THEN <<>>
  ELSE LET c(k) == SubSeq(str, k, k)
           i1 == B64Index(c(1))
           i2 == B64Index(c(2))
           i3 == IF c(3) = "=" THEN 0 ELSE B64Index(c(3))
           i4 == IF c(4) = "=" THEN 0 ELSE B64Index(c(4))
           three == <<i1 * 4 + i2 \div 16, (i2 % 16) * 16 + i3 \div 4, (i3 % 4) * 64 + i4>>
       IN (IF c(3) = "=" THEN SubSeq(three, 1, 1)
           ELSE IF c(4) = "=" THEN SubSeq(three, 1, 2)
           ELSE three)
            \o B64Groups(SubSeq(str, 5, Len(str)))

\* base64.urlsafe_b64decode: [err, val].
urlsafe_b64decode(str) ==
  IF B64Valid(str) THEN [err |-> "", val |-> B64Groups(str)]
  ELSE [err |-> "binascii.Error", val |-> <<>>]

RECURSIVE BytesToBits(_)
BytesToBits(b) == IF b = <<>> THEN <<>> ELSE BitsLsb(Head(b), 8) \o BytesToBits(Tail(b))

\* The bit at (1-based) position k, 0 past the end.
Bit(bits, k) == IF k <= Len(bits) THEN bits[k] ELSE 0

RECURSIVE MsbVal(_, _, _)
\* n bits from position k on as a number, the first bit the most significant.
MsbVal(bits, k, n) == IF n = 0 THEN 0 ELSE MsbVal(bits, k, n - 1) * 2 + Bit(bits, k + n - 1)

RECURSIVE LsbVal(_, _, _)
\* n bits from position k on as a number, the first bit the least significant.
LsbVal(bits, k, n) == IF n = 0 THEN 0 ELSE Bit(bits, k) + 2 * LsbVal(bits, k + 1, n - 1)

\* The fixed-Huffman literal/length symbol at position k: [sym, next].
ReadLitLen(bits, k) ==
  LET c7 == MsbVal(bits, k, 7)
      c8 == MsbVal(bits, k, 8)
      c9 == MsbVal(bits, k, 9)
  IN CASE c7 <= 23 -> [sym |-> 256 + c7, next |-> k + 7]
       [] c8 <= 191 -> [sym |-> c8 - 48, next |-> k + 8]
       [] c8 <= 199 -> [sym |-> 280 + (c8 - 192), next |-> k + 8]
       [] OTHER -> [sym |-> 144 + (c9 - 400), next |-> k + 9]

RECURSIVE CopyMatch(_, _, _)
\* Append len bytes, each the one dist back (the copy may overlap itself).
CopyMatch(out, dist, len) ==
  IF len = 0 THEN out ELSE CopyMatch(Append(out, out[Len(out) - dist + 1]), dist, len - 1)

RECURSIVE InflateFixed(_, _, _)
\* The symbols of a fixed-Huffman block from position k on: [err, out, next].
InflateFixed(bits, k, out) ==
  IF k + 6 > Len(bits) THEN [err |-> "zlib.error", out |-> out, next |-> k]
  ELSE LET s == ReadLitLen(bits, k)
       IN CASE s.sym < 256 -> InflateFixed(bits, s.next, Append(out, s.sym))
            [] s.sym = 256 -> [err |-> "", out |-> out, next |-> s.next]
            [] s.sym > 285 -> [err |-> "zlib.error", out |-> out, next |-> k]
            [] OTHER ->
                 LET li == s.sym - 256
                     len == LenBase[li] + LsbVal(bits, s.next, LenExtra[li])
                     dpos == s.next + LenExtra[li]
                     dc == MsbVal(bits, dpos, 5)
                 IN IF dc > 29 THEN [err |-> "zlib.error", out |-> out, next |-> k]
                    ELSE LET dist == DistBase[dc + 1] + LsbVal(bits, dpos + 5, DistExtra[dc + 1])
                         IN IF dist > Len(out) \/ dpos + 5 + DistExtra[dc + 1] > Len(bits) + 1
                            THEN [err |-> "zlib.error", out |-> out, next |-> k]
                            ELSE InflateFixed(bits, dpos + 5 + DistExtra[dc + 1],
                                              CopyMatch(out, dist, len))

RECURSIVE InflateBlocks(_, _, _)
\* The blocks from position k on, up to the final one.  Only the fixed
\* Huffman block type (BTYPE = 01) is read.
InflateBlocks(bits, k, out) ==
  IF k + 2 > Len(bits) \/ LsbVal(bits, k + 1, 2) # 1
  THEN [err |-> "zlib.error", out |-> out, next |-> k]
  ELSE LET r == InflateFixed(bits, k + 3, out)
       IN IF r.err # "" \/ Bit(bits, k) = 1 THEN r ELSE InflateBlocks(bits, r.next, r.out)

\* zlib.decompress: [err, val].  The stream is CMF, FLG, the deflate data,
\* and the Adler-32 of the decompressed bytes.
decompress(b) ==
  IF Len(b) < 6 THEN [err |-> "zlib.error", val |-> <<>>]
  ELSE IF (b[1] * 256 + b[2]) % 31 # 0     \* incorrect header check
          \/ b[1] % 16 # 8                \* unknown compression method
          \/ b[1] \div 16 > 7             \* invalid window size
          \/ (b[2] \div 32) % 2 = 1       \* a preset dictionary is needed
  THEN [err |-> "zlib.error", val |-> <<>>]
  ELSE LET r == InflateBlocks(BytesToBits(SubSeq(b, 3, Len(b))), 1, <<>>)
           used == 2 + (r.next + 6) \div 8     \* bytes up to the end of the data
       IN IF r.err # "" THEN [err |-> r.err, val |-> <<>>]
          ELSE IF used + 4 > Len(b) \/ SubSeq(b, used + 1, used + 4) # Adler32(r.out)
          THEN [err |-> "zlib.error", val |-> <<>>]
          ELSE [err |-> "", val |-> r.out]

\* Parse bytes as JSON: [err, val].
ParseJsonBytes(b) ==
  IF \E k \in 1..Len(b) : b[k] \notin CodePoints
  THEN [err |-> "UnicodeDecodeError", val |-> None]
  ELSE LET r == Decode(BytesDecode(b), Len(b) + 1)
       IN [err |-> r.err, val |-> r.val]

DropFirst4(b) == SubSeq(b, 5, Len(b))

\* The procedure as the specification words it: base64-decode with the
\* padding restored, decompress, drop the first 4 bytes, parse.
DecodeDecompressFirst(token) ==
  LET raw == urlsafe_b64decode(RestorePadding(token))
      data == IF raw.err = "" THEN decompress(raw.val) ELSE raw
  IN IF data.err # "" THEN [err |-> data.err, val |-> None]
     ELSE ParseJsonBytes(DropFirst4(data.val))

\* The same steps with the prefix dropped before decompressing.
DecodeDropFirst(token) ==
  LET raw == urlsafe_b64decode(RestorePadding(token))
      data == IF raw.err = "" THEN decompress(DropFirst4(raw.val)) ELSE raw
  IN IF data.err # "" THEN [err |-> data.err, val |-> None]
     ELSE ParseJsonBytes(data.val)

RECURSIVE BigEndian(_)
\* A byte string read as a big-endian unsigned integer.
BigEndian(b) == IF b = <<>> THEN 0 ELSE BigEndian(SubSeq(b, 1, Len(b) - 1)) * 256 + b[Len(b)]

\* BE32(n) for n < 2^31.
BE32(n) == <<n \div 16777216, (n \div 65536) % 256, (n \div 256) % 256, n % 256>>

\* The canonical text of a value, as bytes.
CanonicalText(cfg) == StrEncode(dumps(cfg))

\* encode_config has returned a token for config.
Returned == pc \in {"encoded", "end", "exited"} /\ config # Unset /\ stderr = <<>>

(***************************************************************************)
(* The claims.                                                             *)
(***************************************************************************)
Token == encoded_string
Raw == urlsafe_b64decode(RestorePadding(Token))

\* C1 as stated: decoding the token by base64-decoding it with the padding
\* restored, decompressing, dropping the first 4 bytes and parsing the rest
\* as JSON yields a value equal to config.
C1_RoundTripDecompressFirst ==
  Returned =>
    LET d == DecodeDecompressFirst(Token) IN d.err = "" /\ d.val = config

\* C1 amended: decoding the token by base64-decoding it with the padding
\* restored, dropping the first 4 bytes, decompressing the rest and parsing
\* the result as JSON yields a value equal to config.
C1_RoundTrip ==
  Returned =>
    LET d == DecodeDropFirst(Token) IN d.err = "" /\ d.val = config

\* A string holding a double quote, inside a list, has made the round trip.
C1_Witness ==
  /\ pc = "exited"
  /\ json_string = "[\"\\\"\"]"
  /\ config = [t |-> "list", v |-> <<[t |-> "str", v |-> "\""]>>]
  /\ DecodeDropFirst(Token).val = config

\* C2: the token is the URL-safe base64 text, without its trailing "=", of
\* the 4-byte big-endian length of the canonical text followed by the
\* zlib-compressed canonical text; the prefix is outside the compressed part.
C2_TokenFormat ==
  Returned =>
    LET text == CanonicalText(config)
    IN /\ Raw.err = ""
       /\ Raw.val = BE32(Len(text)) \o compress(text)
       /\ decompress(DropFirst4(Raw.val)) = [err |-> "", val |-> text]
       /\ Token = rstrip(BytesDecode(urlsafe_b64encode(Raw.val)), "=")

\* The token of {"a": 1}, as the program prints it.
C2_Witness ==
  /\ pc = "exited"
  /\ json_string = "{\"a\":1}"
  /\ stdout = <<"AAAADnicq-ZSAAKlRCUrBUOuWgAT0wK9">>

\* C3 as stated: the first 4 bytes of the decompressed buffer obtained from
\* the token, read big-endian, are the byte length of the canonical text:
\* 2 for {}, 15 for {"a": 1}.
C3_PrefixOfDecompressed ==
  Returned =>
    LET d == decompress(Raw.val)
    IN /\ d.err = ""
       /\ BigEndian(SubSeq(d.val, 1, 4)) = Len(CanonicalText(config))
       /\ (json_string = "{}" => BigEndian(SubSeq(d.val, 1, 4)) = 2)
       /\ (json_string = "{\"a\":1}" => BigEndian(SubSeq(d.val, 1, 4)) = 15)

\* C3 amended: the first 4 bytes of the base64-decoded buffer, which are
\* not compressed, read big-endian, are the byte length of the canonical
\* text before compression: 2 for {}, 14 for {"a": 1}.
C3_LengthPrefix ==
  Returned =>
    LET prefix == SubSeq(Raw.val, 1, 4)
    IN /\ Raw.err = ""
       /\ Len(prefix) = 4
       /\ BigEndian(prefix) = Len(CanonicalText(config))
       /\ (json_string = "{}" => prefix = <<0, 0, 0, 2>>)
       /\ (json_string = "{\"a\":1}" => prefix = <<0, 0, 0, 14>>)

\* A nested value, 25 bytes of canonical text.
C3_Witness ==
  /\ Returned
  /\ json_string = "[[1]]"
  /\ SubSeq(Raw.val, 1, 4) = <<0, 0, 0, 25>>
  /\ Len(json_str) = 25

RECURSIVE StripZeros(_)
\* A byte string without its leading zero bytes: the digits of its value.
StripZeros(b) == IF b # <<>> /\ Head(b) = 0 THEN StripZeros(Tail(b)) ELSE b

\* The length is 2^32 or more.
TooLong == Len(original_data_len) > 4

\* C4 as stated: for a canonical text longer than 2^32 - 1 bytes
\* encode_config raises nothing, wraps the length into the 4-byte prefix
\* and returns a token.
C4_SilentWrap ==
  TooLong /\ pc # "line10" =>
    /\ pc = "returned"
    /\ stderr = <<>>
    /\ header = SubSeq(original_data_len, Len(original_data_len) - 3, Len(original_data_len))
    /\ Token # ""

\* C4 amended: for a canonical text longer than 2^32 - 1 bytes encode_config
\* raises OverflowError at line 10 and returns no token; for a shorter one
\* it returns a token whose prefix is the length.
C4_OverflowRaises ==
  pc # "line10" =>
    IF TooLong
    THEN pc = "raised" /\ stderr = <<OverflowError>> /\ Token = "" /\ header = <<>>
    ELSE /\ pc = "returned"
         /\ stderr = <<>>
         /\ Len(header) = 4
         /\ StripZeros(header) = original_data_len
         /\ SubSeq(Raw.val, 1, 4) = header

\* The length is exactly 2^32 and the call has raised.
C4_Witness ==
  /\ pc = "raised"
  /\ original_data_len = <<1, 0, 0, 0, 0>>
  /\ stderr = <<OverflowError>>

\* C5: every character of the token is one of A-Z a-z 0-9 _ -: no "=", no
\* "+", no "/".
C5_UrlSafe ==
  Returned =>
    /\ Token # ""
    /\ \A k \in 1..Len(Token) :
         /\ SubSeq(Token, k, k) \in UrlsafeChars
         /\ SubSeq(Token, k, k) \notin {"=", "+", "/"}

\* A token that holds both "-" and "_", and whose padded form ends in "=".
C5_Witness ==
  /\ Returned
  /\ \E k \in 1..Len(Token) : SubSeq(Token, k, k) = "-"
  /\ \E k \in 1..Len(Token) : SubSeq(Token, k, k) = "_"
  /\ Len(Token) % 4 # 0

\* C6: with no positional argument the program prints the usage line to
\* standard output, exits with status 1 and never reaches the parse or the
\* encode step: no token and no "Invalid JSON string." line is printed.
C6_MissingArgument ==
  Len(argv) < 2 =>
    /\ pc \in {"start", "exited"}
    /\ config = Unset
    /\ Token = ""
    /\ stderr = <<>>
    /\ (pc = "start" => stdout = <<>> /\ exit_code = -1)
    /\ (pc = "exited" => stdout = <<UsageLine>> /\ exit_code = 1)

\* The program has exited on a missing argument.
C6_Witness == Len(argv) < 2 /\ pc = "exited" /\ exit_code = 1

\* C7: with an argument that is not valid JSON the program prints exactly
\* the line "Invalid JSON string.", prints no token, lets no exception
\* escape, and ends with exit status 0.
C7_InvalidJson ==
  Len(argv) >= 2 /\ ~IsJson(argv[2]) /\ pc = "exited" =>
    /\ stdout = <<InvalidLine>>
    /\ stderr = <<>>
    /\ exit_code = 0

\* C8: the exit status is 1 when the argument is missing and 0 otherwise,
\* whether or not the JSON parse succeeded.
C8_ExitCodes ==
  pc = "exited" => exit_code = (IF Len(argv) < 2 THEN 1 ELSE 0)

\* C10: for a buffer of n >= 4 bytes the token has ceil(4n/3) characters,
\* the stripping removes (3 - n mod 3) mod 3 characters, at most 2 and all
\* of them "=", the token length is never 1 modulo 4, and restoring the
\* padding from the token length alone gives back the padded text.
C10_PaddingLossless ==
  Returned =>
    LET n == Len(header) + Len(compressed_data)
        padded == BytesDecode(urlsafe_b64encode(header \o compressed_data))
        removed == (3 - (n % 3)) % 3
    IN /\ n >= 4
       /\ Len(Token) = (4 * n + 2) \div 3
       /\ Len(padded) - Len(Token) = removed
       /\ removed <= 2
       /\ padded = Token \o Equals(removed)
       /\ SubSeq(Token, Len(Token), Len(Token)) # "="
       /\ Len(Token) % 4 # 1
       /\ RestorePadding(Token) = padded

\* A buffer of n = 1 modulo 3 bytes: two "=" were removed.
C10_Witness ==
  /\ Returned
  /\ (Len(header) + Len(compressed_data)) % 3 = 1
  /\ Len(Token) % 4 = 2
====
